---- MODULE Spec2Model ----
(***************************************************************************)
(* State-machine model of backend_server.py: the in-memory job registry,   *)
(* the process_avatar submission handler, the background process_image     *)
(* pipeline with its six stage handlers, and the get_processing_status     *)
(* poll handler, all running as coroutines on one asyncio event loop.      *)
(*                                                                         *)
(* Conventions                                                             *)
(*   - progress is kept in hundredths (0.1 is 10, 0.95 is 95, 1.0 is 100). *)
(*   - a Python value that may be None is a tuple: <<>> is None and <<v>>  *)
(*     is the value v.  A job is a Python dict: a function from its keys.  *)
(*   - coroutines interleave only at suspension points (await of a sleep   *)
(*     or of the upload read); everything between two suspensions of one   *)
(*     coroutine runs without any other coroutine running.                 *)
(***************************************************************************)
EXTENDS Integers, Sequences, FiniteSets, TLC

\* Number of job identifiers uuid4 can hand out in one run of the model.
NumJobs == 2

JobIds == 1..NumJobs

VARIABLES
    jobs,     \* the module-level dict jobs: job_id -> job dict
    pc,       \* per job_id: where its request handler / pipeline task stands
    polled    \* the poller's view: the last answer of get_processing_status, and
              \* the progress of the 200 answer it got before for the same job_id

vars == <<jobs, pc, polled>>

----------------------------------------------------------------------------
\* Python values

PyNone == <<>>

Py(v) == <<v>>

IsNone(x) == x = <<>>

\* d.get(k): the stored value, None when the key is missing
dict_get(d, k) == IF k \in DOMAIN d THEN d[k] ELSE PyNone

\* d.update(u): keys of u overwrite, the other keys stay
dict_update(d, u) == u @@ d

\* Exceptions a stage handler may raise: the positional args of Exception(...)
Exceptions == { [args |-> <<>>], [args |-> <<"mesh failed">>] }

\* str(e) of an Exception: "" with no args, the argument with one
str(e) == IF e.args = <<>> THEN "" ELSE e.args[1]

\* json.loads(config) on the payloads the model submits: TRUE when it parses
ConfigPayloads == { "{}", "{\"quality\": \"high\"}", "{not json" }

\* json_loads_ok that takes every payload (a parse error swallowed)
json_loads_ok_lenient(config) == TRUE

json_loads_ok(config) == config \in { "{}", "{\"quality\": \"high\"}" }

----------------------------------------------------------------------------
\* ProcessingPipeline.STAGES: (name, label, target progress)

STAGES ==
    << [name |-> "uploading",       label |-> "Uploading to backend...",                progress |-> 10],
       [name |-> "segmentation",    label |-> "MODNet person segmentation...",          progress |-> 20],
       [name |-> "depth_analysis",  label |-> "MiDaS depth estimation...",              progress |-> 30],
       [name |-> "mesh_generation", label |-> "RenderNet 3D mesh creation...",          progress |-> 50],
       [name |-> "texture_mapping", label |-> "PIKE texture generation...",             progress |-> 70],
       [name |-> "rigging",         label |-> "Adding facial blendshapes...",           progress |-> 80],
       [name |-> "animation",       label |-> "Injecting breathing & micro-motions...", progress |-> 90],
       [name |-> "unity_prep",      label |-> "Preparing for Unity import...",          progress |-> 95],
       [name |-> "completed",       label |-> "Ready for 3D world!",                    progress |-> 100] >>

----------------------------------------------------------------------------
\* The dict writes of process_image and of the stage handlers

\* initial_job with the flag already set (a job that is born completed)
initial_job_completed ==
    [ status        |-> "processing",
      current_stage |-> "uploading",
      progress      |-> 10,
      is_completed  |-> TRUE,
      error         |-> PyNone ]

\* jobs[job_id] = {...}: the dict process_image stores first (no "assets" key)
initial_job ==
    [ status        |-> "processing",
      current_stage |-> "uploading",
      progress      |-> 10,
      is_completed  |-> FALSE,
      error         |-> PyNone ]

segment_person_update   == [current_stage |-> "segmentation",    progress |-> 20]

\* estimate_depth_update with the checkpoint of an earlier stage
estimate_depth_update_regress == [current_stage |-> "depth_analysis", progress |-> 10]

estimate_depth_update   == [current_stage |-> "depth_analysis",  progress |-> 30]

\* generate_3d_mesh_update that announces the next stage (texture before mesh)
generate_3d_mesh_update_skip == [current_stage |-> "texture_mapping", progress |-> 70]

generate_3d_mesh_update == [current_stage |-> "mesh_generation", progress |-> 50]

\* apply_textures_update with a checkpoint that is not the table's
apply_textures_update_off_table == [current_stage |-> "texture_mapping", progress |-> 60]

apply_textures_update   == [current_stage |-> "texture_mapping", progress |-> 70]

\* rigging_update that announces the second stage of add_animations at once
rigging_update_as_animation == [current_stage |-> "animation", progress |-> 90]

rigging_update          == [current_stage |-> "rigging",         progress |-> 80]

animation_update        == [current_stage |-> "animation",       progress |-> 90]

prepare_for_unity_update == [current_stage |-> "unity_prep",     progress |-> 95]

\* A value of the assets dict with its Python type: a str or a nested dict
PyStr(s) == [type |-> "str", value |-> s]

PyDict(keys) == [type |-> "dict", value |-> keys]

AssetBase == "https://api.mirrorworld-backend.replit.app/assets/"

\* The assets dict of the completion write: three f-string URLs and metadata
assets_of(job_id) ==
    [ modelURL      |-> PyStr(<<AssetBase, job_id, "/model.glb">>),
      textureURL    |-> PyStr(<<AssetBase, job_id, "/texture.jpg">>),
      animationData |-> PyStr(<<AssetBase, job_id, "/animations.json">>),
      metadata      |-> PyDict(<<"facialFeatures", "bodyMeasurements", "animationConfig">>) ]

\* complete_update that also fills error
complete_update_with_error(job_id) ==
    [ current_stage |-> "completed",
      progress      |-> 100,
      is_completed  |-> TRUE,
      assets        |-> Py(assets_of(job_id)),
      error         |-> Py("") ]

\* complete_update that leaves progress at the last checkpoint
complete_update_stale_progress(job_id) ==
    [ current_stage |-> "completed",
      is_completed  |-> TRUE,
      assets        |-> Py(assets_of(job_id)) ]

\* complete_update that forgets the flag
complete_update_no_flag(job_id) ==
    [ current_stage |-> "completed",
      progress      |-> 100,
      assets        |-> Py(assets_of(job_id)) ]

\* The final update of the try block
complete_update(job_id) ==
    [ current_stage |-> "completed",
      progress      |-> 100,
      is_completed  |-> TRUE,
      assets        |-> Py(assets_of(job_id)) ]

\* except_update that also rolls the progress back
except_update_rollback(e) ==
    [ error        |-> Py(str(e)),
      progress     |-> 0,
      is_completed |-> TRUE ]

\* except_update that records the error and forgets the flag
except_update_no_flag(e) ==
    [ error |-> Py(str(e)) ]

\* The update of the except branch
except_update(e) ==
    [ error        |-> Py(str(e)),
      is_completed |-> TRUE ]

\* jobs[job_id] = d
jobs_set(js, job_id, d) == (job_id :> d) @@ js

\* jobs_update that merges u into every job of the registry
jobs_update_all(js, job_id, u) == [k \in DOMAIN js |-> dict_update(js[k], u)]

\* jobs[job_id].update(u)
jobs_update(js, job_id, u) == [js EXCEPT ![job_id] = dict_update(js[job_id], u)]

----------------------------------------------------------------------------
\* get_processing_status: the answer for job_id given the registry js

\* JobStatus declares assets: Optional[Dict[str, str]]: every value must be a str
assets_valid(a) == IsNone(a) \/ \A k \in DOMAIN a[1] : a[1][k].type = "str"

\* status_response that answers an unknown identifier with an empty job
status_response_default(js, job_id) ==
    [ code          |-> 200,
      job_id        |-> job_id,
      current_stage |-> IF job_id \in DOMAIN js THEN js[job_id]["current_stage"] ELSE "",
      progress      |-> IF job_id \in DOMAIN js THEN js[job_id]["progress"] ELSE 0,
      is_completed  |-> IF job_id \in DOMAIN js THEN js[job_id]["is_completed"] ELSE FALSE,
      assets        |-> PyNone,
      error         |-> PyNone ]

status_response(js, job_id) ==
    IF job_id \notin DOMAIN js
    THEN [code |-> 404, detail |-> "Job not found"]
    ELSE LET job == js[job_id] IN
         IF assets_valid(dict_get(job, "assets"))
         THEN [ code          |-> 200,
                job_id        |-> job_id,
                current_stage |-> job["current_stage"],
                progress      |-> job["progress"],
                is_completed  |-> job["is_completed"],
                assets        |-> dict_get(job, "assets"),
                error         |-> dict_get(job, "error") ]
         ELSE [code |-> 500, detail |-> "validation error for JobStatus"]

----------------------------------------------------------------------------
\* Positions

\* Waiting without the first sleep of add_animations (a failure there swallowed)
Waiting_without_rigging ==
    { "segmentation", "depth_analysis", "mesh_generation",
      "texture_mapping", "animation", "unity_prep" }

\* Waiting with the place after the completion write (a raise after it)
Waiting_after_done ==
    { "segmentation", "depth_analysis", "mesh_generation",
      "texture_mapping", "rigging", "animation", "unity_prep", "done" }

\* The asyncio.sleep calls a pipeline task can be suspended in, each called
\* after the stage its handler is written for
Waiting == { "segmentation", "depth_analysis", "mesh_generation",
             "texture_mapping", "rigging", "animation", "unity_prep" }

\* The event loop is free: no task is between two writes of one uninterrupted run
LoopFree == \A j \in JobIds : pc[j] # "uploading"

\* create_task that runs the coroutine to its first suspension before it returns
create_task_eager(p, job_id) == [p EXCEPT ![job_id] = "segmentation"]

\* asyncio.create_task(process_image(...)): the task exists and has not run yet
create_task(p, job_id) == [p EXCEPT ![job_id] = "created"]

Init ==
    /\ jobs = <<>>
    /\ pc = [j \in JobIds |-> "unused"]
    /\ polled = PyNone

----------------------------------------------------------------------------
\* process_avatar

\* job_id = str(uuid.uuid4()); await photo.read() suspends the handler
process_avatar_begin(job_id) ==
    /\ LoopFree
    /\ pc[job_id] = "unused"
    /\ pc' = [pc EXCEPT ![job_id] = "reading"]
    /\ UNCHANGED <<jobs, polled>>

\* json.loads(config); create_task(...); return the jobId, or HTTP 500
process_avatar_resume(job_id, config) ==
    /\ LoopFree
    /\ pc[job_id] = "reading"
    /\ IF json_loads_ok(config)
       THEN pc' = create_task(pc, job_id)
       ELSE pc' = [pc EXCEPT ![job_id] = "rejected"]
    /\ UNCHANGED <<jobs, polled>>

----------------------------------------------------------------------------
\* process_image and the stage handlers

\* The task's first run: jobs[job_id] = {...}
process_image_start(job_id) ==
    /\ LoopFree
    /\ pc[job_id] = "created"
    /\ jobs' = jobs_set(jobs, job_id, initial_job)
    /\ pc' = [pc EXCEPT ![job_id] = "uploading"]
    /\ UNCHANGED polled

\* A handler's write followed by its asyncio.sleep: the task leaves the
\* position from, updates its job with u and suspends in the sleep called to
stage_write(job_id, from, to, u) ==
    /\ pc[job_id] = from
    /\ (from = "uploading" \/ LoopFree)
    /\ jobs' = jobs_update(jobs, job_id, u)
    /\ pc' = [pc EXCEPT ![job_id] = to]
    /\ UNCHANGED polled

segment_person(job_id) ==
    stage_write(job_id, "uploading", "segmentation", segment_person_update)

estimate_depth(job_id) ==
    stage_write(job_id, "segmentation", "depth_analysis", estimate_depth_update)

generate_3d_mesh(job_id) ==
    stage_write(job_id, "depth_analysis", "mesh_generation", generate_3d_mesh_update)

apply_textures(job_id) ==
    stage_write(job_id, "mesh_generation", "texture_mapping", apply_textures_update)

add_animations_rigging(job_id) ==
    stage_write(job_id, "texture_mapping", "rigging", rigging_update)

add_animations_animation(job_id) ==
    stage_write(job_id, "rigging", "animation", animation_update)

prepare_for_unity(job_id) ==
    stage_write(job_id, "animation", "unity_prep", prepare_for_unity_update)

\* prepare_for_unity returned: the completion write, and the task ends
process_image_complete(job_id) ==
    /\ LoopFree
    /\ pc[job_id] = "unity_prep"
    /\ jobs' = jobs_update(jobs, job_id, complete_update(job_id))
    /\ pc' = [pc EXCEPT ![job_id] = "done"]
    /\ UNCHANGED polled

\* The handler the task is suspended in raises e: the except branch, and the task ends
process_image_except(job_id, e) ==
    /\ LoopFree
    /\ pc[job_id] \in Waiting
    /\ jobs' = jobs_update(jobs, job_id, except_update(e))
    /\ pc' = [pc EXCEPT ![job_id] = "failed"]
    /\ UNCHANGED polled

----------------------------------------------------------------------------
\* A submission whose uuid4 value is a job_id used before, its earlier task ended

process_avatar_duplicate(job_id) ==
    /\ LoopFree
    /\ pc[job_id] \in {"done", "failed"}
    /\ pc' = [pc EXCEPT ![job_id] = "reading"]
    /\ UNCHANGED <<jobs, polled>>

----------------------------------------------------------------------------
\* get_processing_status

\* What the poller remembers of its earlier polls of job_id: the progress of the
\* most recent 200 answer, None when it has polled another job since
poll_previous(p, job_id) ==
    IF IsNone(p) \/ p[1].job_id # job_id THEN PyNone
    ELSE IF p[1].response.code = 200 THEN Py(p[1].response.progress)
    ELSE p[1].previous

get_processing_status(job_id) ==
    /\ LoopFree
    /\ polled' = Py([ job_id   |-> job_id,
                      response |-> status_response(jobs, job_id),
                      previous |-> poll_previous(polled, job_id) ])
    /\ UNCHANGED <<jobs, pc>>

----------------------------------------------------------------------------

\* One run of the pipeline task of job_id between two suspensions
TaskStep(job_id) ==
    \/ process_image_start(job_id)
    \/ segment_person(job_id)
    \/ estimate_depth(job_id)
    \/ generate_3d_mesh(job_id)
    \/ apply_textures(job_id)
    \/ add_animations_rigging(job_id)
    \/ add_animations_animation(job_id)
    \/ prepare_for_unity(job_id)
    \/ process_image_complete(job_id)
    \/ \E e \in Exceptions : process_image_except(job_id, e)

\* The steps that write: submissions and pipeline tasks
Pipeline ==
    \/ \E j \in JobIds : process_avatar_begin(j)
    \/ \E j \in JobIds : \E c \in ConfigPayloads : process_avatar_resume(j, c)
    \/ \E j \in JobIds : TaskStep(j)

Next ==
    \/ Pipeline
    \/ \E j \in JobIds : get_processing_status(j)

Spec == Init /\ [][Next]_vars

\* The server when job identifiers can repeat
DupNext ==
    \/ Next
    \/ \E j \in JobIds : process_avatar_duplicate(j)

DupSpec == Init /\ [][DupNext]_vars

\* Termination is a property of jobs and pc, which get_processing_status only
\* reads, so the specification for it leaves the polls out.  The event loop
\* runs every task that is ready and every asyncio.sleep ends: weak fairness
\* of each task's steps.
FairSpec == Init /\ [][Pipeline]_vars /\ \A j \in JobIds : WF_vars(TaskStep(j))

----------------------------------------------------------------------------
\* Vocabulary of the properties

\* process_avatar has returned the jobId of j to its caller
Returned(j) == pc[j] \notin {"unused", "reading", "rejected"}

\* The pipeline task of j has ended
Ended(j) == pc[j] \in {"done", "failed"}

InRegistry(j) == j \in DOMAIN jobs

IsCompleted(j) == InRegistry(j) /\ jobs[j]["is_completed"]

AssetsOf(j) == dict_get(jobs[j], "assets")

ErrorOf(j) == dict_get(jobs[j], "error")

\* The target progress STAGES gives the stage called name
StageProgress(name) ==
    LET i == CHOOSE k \in 1..Len(STAGES) : STAGES[k].name = name IN STAGES[i].progress

\* The poller holds a 200 answer
PolledOk == ~IsNone(polled) /\ polled[1].response.code = 200

----------------------------------------------------------------------------
\* C1: once process_avatar has returned a jobId, that jobId is in the jobs
\* registry and get_processing_status does not answer it with not-found, also
\* before the pipeline task has made its first write.
C1_ValidOnReturn ==
    \A j \in JobIds :
        Returned(j) => InRegistry(j) /\ status_response(jobs, j).code # 404

\* C2: every stored progress lies in [0.0, 1.0], and of two successive 200
\* answers a poller gets for one job the later progress is not the smaller.
C2_ProgressMonotone ==
    /\ \A j \in DOMAIN jobs : jobs[j]["progress"] \in 0..100
    /\ (PolledOk /\ ~IsNone(polled[1].previous))
          => polled[1].previous[1] <= polled[1].response.progress

C2_Witness ==
    /\ PolledOk
    /\ polled[1].previous = Py(20)
    /\ polled[1].response.progress = 95

\* C3: is_completed is a one-way latch: a job enters the registry with it false,
\* no step sets it back from true to false, and it is true exactly when the
\* job's task has ended (one change per lifetime).
C3_Latch ==
    /\ [][ \A j \in JobIds :
             /\ (~InRegistry(j) /\ j \in DOMAIN jobs') => ~jobs'[j]["is_completed"]
             /\ InRegistry(j) => j \in DOMAIN jobs'
             /\ IsCompleted(j) => jobs'[j]["is_completed"] ]_vars
    /\ [](\A j \in JobIds : InRegistry(j) => (jobs[j]["is_completed"] <=> Ended(j)))

C3_Witness ==
    \E j, k \in JobIds :
        /\ j # k
        /\ IsCompleted(j)
        /\ InRegistry(k) /\ ~IsCompleted(k) /\ pc[k] = "animation"

\* C4: no job carries both assets and error; a job that completed successfully
\* has assets and no error, a job that ended by a handler failure has error and
\* no assets.
C4_AssetsXorError ==
    \A j \in DOMAIN jobs :
        /\ ~(~IsNone(AssetsOf(j)) /\ ~IsNone(ErrorOf(j)))
        /\ (pc[j] = "done" \/ jobs[j]["current_stage"] = "completed")
              => (~IsNone(AssetsOf(j)) /\ IsNone(ErrorOf(j)))
        /\ pc[j] = "failed" => (~IsNone(ErrorOf(j)) /\ IsNone(AssetsOf(j)))

C4_Witness ==
    \E j, k \in JobIds :
        /\ pc[j] = "done" /\ ~IsNone(AssetsOf(j))
        /\ pc[k] = "failed" /\ ~IsNone(ErrorOf(k))

\* C5: a status query for an identifier that is not in the registry is answered
\* 404 "Job not found", never with a job, and leaves the registry as it was.
C5_UnknownIsNotFound ==
    [][ \A j \in JobIds :
          (polled' # polled /\ polled'[1].job_id = j /\ ~InRegistry(j))
             => /\ polled'[1].response = [code |-> 404, detail |-> "Job not found"]
                /\ jobs' = jobs ]_vars

C5_Witness ==
    \E j \in JobIds :
        /\ ~IsNone(polled) /\ polled[1].job_id = j
        /\ polled[1].response.code = 404
        /\ ~InRegistry(j)

\* C6: a step of the pipeline of job a (a stage write, the completion write or
\* the failure write) leaves the registry entry and the task of every other job
\* b as they were.
C6_Isolation ==
    [][ \A a, b \in JobIds :
          (a # b /\ pc'[a] # pc[a])
             => /\ InRegistry(b) <=> b \in DOMAIN jobs'
                /\ InRegistry(b) => jobs'[b] = jobs[b]
                /\ pc'[b] = pc[b] ]_vars

C6_Witness ==
    \E a, b \in JobIds :
        /\ pc[a] = "failed" /\ jobs[a]["current_stage"] = "segmentation"
        /\ pc[b] = "done" /\ jobs[b]["progress"] = 100 /\ IsNone(ErrorOf(b))

\* C7: the failure write after a handler raised at stage S sets error and
\* is_completed and nothing else: current_stage stays S, progress stays the
\* checkpoint of S, assets stays absent.
C7_FailureWrite ==
    [][ \A j \in JobIds :
          (pc[j] \in Waiting /\ pc'[j] = "failed")
             => /\ jobs'[j]["current_stage"] = pc[j]
                /\ jobs'[j]["current_stage"] = jobs[j]["current_stage"]
                /\ jobs'[j]["progress"] = jobs[j]["progress"]
                /\ jobs'[j]["progress"] = StageProgress(pc[j])
                /\ jobs'[j]["status"] = jobs[j]["status"]
                /\ IsNone(dict_get(jobs'[j], "assets"))
                /\ ~IsNone(jobs'[j]["error"])
                /\ jobs'[j]["is_completed"] ]_vars

C7_Witness ==
    \E j \in JobIds :
        /\ pc[j] = "failed"
        /\ jobs[j]["current_stage"] = "mesh_generation"
        /\ jobs[j]["progress"] = 50
        /\ jobs[j]["error"] = Py("mesh failed")

\* C8: when every handler succeeded, the one write after prepare_for_unity
\* leaves current_stage "completed", progress 1.0, is_completed true, assets
\* with modelURL, textureURL, animationData and metadata, and no error; and
\* "completed" is written by that write alone.
C8_CompletionWrite ==
    \A j \in JobIds :
        /\ pc[j] = "done" =>
              /\ jobs[j]["current_stage"] = "completed"
              /\ jobs[j]["progress"] = 100
              /\ jobs[j]["is_completed"]
              /\ ~IsNone(AssetsOf(j))
              /\ DOMAIN AssetsOf(j)[1] = {"modelURL", "textureURL", "animationData", "metadata"}
              /\ AssetsOf(j)[1].modelURL.value[2] = j
              /\ IsNone(ErrorOf(j))
        /\ (InRegistry(j) /\ jobs[j]["current_stage"] = "completed") => pc[j] = "done"

C8_Witness ==
    \E j \in JobIds : pc[j] = "done" /\ jobs[j]["current_stage"] = "completed"

\* C9: under fair scheduling every launched pipeline ends with is_completed
\* true, and a task never ends while its job still has is_completed false.
C9_Terminates ==
    /\ \A j \in JobIds : [](Ended(j) => IsCompleted(j))
    /\ \A j \in JobIds : (pc[j] = "created") ~> (Ended(j) /\ IsCompleted(j))

C9_Witness ==
    \E j, k \in JobIds :
        /\ pc[j] = "failed" /\ IsCompleted(j)
        /\ pc[k] = "done" /\ IsCompleted(k)

\* C10: process_avatar returns the jobId with the pipeline task created and not
\* yet run: at the return no write of that job has happened and the registry is
\* as it was.
C10_NonBlocking ==
    [][ \A j \in JobIds :
          (pc[j] = "reading" /\ Returned(j)')
             => /\ pc'[j] = "created"
                /\ j \notin DOMAIN jobs'
                /\ jobs' = jobs ]_vars

C10_Witness ==
    \E j \in JobIds : pc[j] = "created" /\ ~InRegistry(j)

----------------------------------------------------------------------------
\* A config payload that is not valid JSON
Malformed(config) == config = "{not json"

\* C11: a submission whose config is not valid JSON is rejected in the handler
\* itself: no registry entry is added, no pipeline task is created (then or
\* later), and every other job and task is left as it was.
C11_MalformedRejected ==
    /\ [][ \A j \in JobIds : \A c \in ConfigPayloads :
             (Malformed(c) /\ process_avatar_resume(j, c))
                => /\ pc'[j] = "rejected"
                   /\ jobs' = jobs
                   /\ \A k \in JobIds \ {j} : pc'[k] = pc[k] ]_vars
    /\ [][ \A j \in JobIds : pc[j] = "rejected" => pc'[j] = "rejected" ]_vars
    /\ [](\A j \in JobIds : pc[j] = "rejected" => ~InRegistry(j))

C11_Witness ==
    \E j, k \in JobIds :
        /\ pc[j] = "rejected" /\ ~InRegistry(j)
        /\ pc[k] = "mesh_generation" /\ InRegistry(k)

\* The answer a poll of a job gives in its initial state
InitialAnswer(j) ==
    [ code          |-> 200,
      job_id        |-> j,
      current_stage |-> "uploading",
      progress      |-> 10,
      is_completed  |-> FALSE,
      assets        |-> PyNone,
      error         |-> PyNone ]

\* C12: the first state of a job that a poll can return is the initial state:
\* current_stage "uploading", progress 0.1, is_completed false, assets and
\* error absent.
C12_FirstObservable ==
    [][ \A j \in JobIds :
          (pc[j] \in {"created", "uploading"} /\ InRegistry(j)' /\ LoopFree')
             => status_response(jobs', j) = InitialAnswer(j) ]_vars

\* The place of the stage called name in STAGES
StageIndex(name) == CHOOSE k \in 1..Len(STAGES) : STAGES[k].name = name

\* C13: within a job the stages run in the order of STAGES: a job enters the
\* registry at the first stage, every change of current_stage goes to the next
\* stage of the table, and the write is made by the job's own task when it
\* leaves the wait of the stage before (or the initial write).
C13_StageOrder ==
    [][ \A j \in JobIds :
          /\ (~InRegistry(j) /\ InRegistry(j)')
                => jobs'[j]["current_stage"] = STAGES[1].name
          /\ (InRegistry(j) /\ jobs'[j]["current_stage"] # jobs[j]["current_stage"])
                => /\ StageIndex(jobs'[j]["current_stage"])
                         = StageIndex(jobs[j]["current_stage"]) + 1
                   /\ pc[j] = jobs[j]["current_stage"]
                   /\ pc[j] \in Waiting \cup {"uploading"}
                   /\ pc'[j] # pc[j] ]_vars

C13_Witness ==
    \E j \in JobIds :
        /\ pc[j] = "animation"
        /\ jobs[j]["current_stage"] = "animation"
        /\ jobs[j]["progress"] = 90

\* C14: a pipeline started with a job_id that is already in the registry leaves
\* the existing job as it is (current_stage, progress, is_completed, assets,
\* error): the create fails instead of overwriting.
C14_DuplicateKeepsJob ==
    [][ \A j \in JobIds :
          (InRegistry(j) /\ pc[j] = "created" /\ pc'[j] # pc[j])
             => jobs'[j] = jobs[j] ]_vars

\* C15: once a job has is_completed true nothing about it changes again: no
\* stage write, and current_stage, progress, assets and error keep the values
\* of the terminal write; its task makes no further step.
C15_FrozenWhenCompleted ==
    [][ \A j \in JobIds :
          IsCompleted(j) => (InRegistry(j)' /\ jobs'[j] = jobs[j] /\ pc'[j] = pc[j]) ]_vars

C15_Witness ==
    \E j, k \in JobIds :
        /\ j # k
        /\ IsCompleted(j) /\ pc[j] = "done"
        /\ PolledOk /\ polled[1].job_id = k
        /\ polled[1].response.is_completed /\ polled[1].response.current_stage = "rigging"

\* C16: is_completed is true exactly when the job is terminal: current_stage
\* "completed" with assets present, or error present.
C16_CompletedIffTerminal ==
    \A j \in DOMAIN jobs :
        jobs[j]["is_completed"]
           <=> \/ (jobs[j]["current_stage"] = "completed" /\ ~IsNone(AssetsOf(j)))
               \/ ~IsNone(ErrorOf(j))

C16_Witness ==
    \E j, k \in JobIds :
        /\ InRegistry(j) /\ jobs[j]["is_completed"] /\ ErrorOf(j) = Py("")
        /\ InRegistry(k) /\ ~jobs[k]["is_completed"] /\ jobs[k]["current_stage"] = "unity_prep"

\* The task of j is the one the event loop can run next
RunsNext(j) == LoopFree \/ pc[j] = "uploading"

\* The next step of j's task is the failure write, current_stage staying as it is
FailsNow(j) ==
    \E e \in Exceptions :
        /\ process_image_except(j, e)
        /\ jobs'[j]["current_stage"] = jobs[j]["current_stage"]
        /\ ~IsNone(jobs'[j]["error"])

C18_StageNamesTheWait ==
    \A j \in JobIds :
        pc[j] \in Waiting
           => /\ InRegistry(j)
              /\ jobs[j]["current_stage"] = pc[j]
              /\ jobs[j]["progress"] = StageProgress(pc[j])
              /\ ~jobs[j]["is_completed"]

C18_Witness ==
    \E j, k \in JobIds :
        /\ pc[j] = "rigging" /\ jobs[j]["current_stage"] = "rigging"
        /\ pc[k] = "animation" /\ jobs[k]["current_stage"] = "animation"

\* C19: for every job that ended by a handler failure, whatever the handler
\* raised, the error of the final state and of its poll is a non-empty string.
C19_ErrorNonEmpty ==
    \A j \in JobIds :
        pc[j] = "failed"
           => /\ ~IsNone(ErrorOf(j))
              /\ ErrorOf(j)[1] # ""
              /\ status_response(jobs, j).error # Py("")

\* C20: the (current_stage, progress) pair of every job, stored or polled, is a
\* (name, target progress) pair of STAGES.
C20_PairsOfTheTable ==
    /\ \A j \in DOMAIN jobs :
          \E i \in 1..Len(STAGES) :
              /\ STAGES[i].name = jobs[j]["current_stage"]
              /\ STAGES[i].progress = jobs[j]["progress"]
    /\ PolledOk =>
          \E i \in 1..Len(STAGES) :
              /\ STAGES[i].name = polled[1].response.current_stage
              /\ STAGES[i].progress = polled[1].response.progress

C20_Witness ==
    \E j \in JobIds :
        /\ PolledOk /\ polled[1].job_id = j
        /\ polled[1].response.current_stage = "texture_mapping"
        /\ polled[1].response.progress = 70
        /\ jobs[j]["current_stage"] = "completed" /\ jobs[j]["progress"] = 100

====
